---- MODULE Spec2Model ----
(***************************************************************************)
(* The write pipeline of rust-nonblocking_logger: producers calling log(), *)
(* flush() and shutdown() on a NonBlockingLogger (src/src/lib.rs), the     *)
(* bounded crossbeam channel between them and the worker thread, and the   *)
(* worker LogWorker::run with its retry-write loop write_buffer            *)
(* (src/src/worker.rs), and the builder NonBlockingLoggerBuilder with the  *)
(* level filter enabled() / max_level() and init() (src/src/lib.rs).       *)
(*                                                                         *)
(* A byte buffer is kept run-length encoded: a sequence of runs            *)
(* [b |-> byte, n |-> count], n >= 1, adjacent runs holding different      *)
(* bytes.  Every log line is one run whose byte is the number of the       *)
(* log() call that formatted it, so two buffers are equal exactly when     *)
(* they hold the same bytes in the same order.                             *)
(***************************************************************************)
EXTENDS Integers, Sequences, FiniteSets, TLC

\* ------------------------------------------------------------ bounds
NumProducers == 2
ChannelSize == 1
MaxCalls == 3
MaxGlitches == 1
\* the write_buffer calls of SpecWrite: line lengths and stream outcomes
MaxWriteLen == 3
MaxWriteGlitches == 3

\* builders, and the with_module_level calls made on one
NumBuilders == 2
MaxOverrides == 2

\* worker.rs:111  if msg.len() < 1280
InlineThreshold == 1280

\* lib.rs:74  pub const DEFAULT_CHANNEL_SIZE: usize = 16384
DEFAULT_CHANNEL_SIZE == 16384

Producers == 1..NumProducers
Builders == 1..NumBuilders
\* lengths of the formatted lines log() enqueues: both sides of the threshold
Lens == {InlineThreshold - 1, InlineThreshold}

VARIABLES
    queue,        \* the bounded channel: messages sent and not yet received
    closed,       \* every Sender of the channel has been dropped
    running,      \* the Arc<AtomicBool> shared by the logger and the worker
    dest,         \* the destination stream: "ok", or "stuck" once it has stopped accepting bytes for good
    stream,       \* the bytes the destination stream has accepted, in order
    errout,       \* the diagnostics written by write_stderr_with_retry_internal, in order
    wpc,          \* where the worker thread is in LogWorker::run
    first,        \* first_message_to_pipe
    pipe_buffer,  \* pipe_buffer
    pdone,        \* the Sender<()> of the Flush the worker is answering (its producer), 0 if none
    cont,         \* the call site write_buffer returns to, or the arm handling a Flush
    flushRes,     \* the result of stdout.lock().flush() for the Flush being answered
    wb,           \* the frame of write_buffer: buf, cursor, and of this call the bytes accepted, the outcomes of its writes, its result
    ppc,          \* where each producer thread is
    pmsg,         \* the message a producer is sending
    done,         \* the one-slot completion channel of each producer's flush()
    fret,         \* how the last flush() of each producer returned
    fmark,        \* the Log payloads enqueued before a producer's Flush was sent
    shutRes,      \* the results of the shutdown() calls, in call order
    enq,          \* every message that entered the queue, in order
    served,       \* the bytes of the write_buffer calls that have returned, call after call
    ndeq,         \* the number of messages the worker has received
    exitBy,       \* why the worker left its loop: "none", "flag", "closed"
    nlog,         \* log() calls made so far
    ncalls,       \* log(), flush() and shutdown() calls made so far
    budget,       \* how many more times a write or a flush of the stream may do other than accept all
    options,      \* the NonBlockingOptions of each builder: default_level, module_levels, channel_size
    bpc,          \* where each builder is: configuring, panicked, in init(), init() returned Ok or Err
    built,        \* what init() has made for each builder: the channel (its capacity), the worker thread, the flag
    logger,       \* the sink installed in the log crate (its builder), 0 while there is none
    max_level,    \* the log crate's global maximum level
    destBy        \* the builders whose thread has written to the destination stream, in order

buildVars == << options, bpc, built, logger, max_level, destBy >>

vars == << queue, closed, buildVars, running, dest, stream, errout, wpc, first, pipe_buffer,
           pdone, cont, flushRes, wb, ppc, pmsg, done, fret, fmark, shutRes, enq,
           served, ndeq, exitBy, nlog, ncalls, budget >>

\* ------------------------------------------------------------ byte buffers
RECURSIVE BLen(_)
BLen(s) == IF s = <<>> THEN 0 ELSE s[1].n + BLen(Tail(s))

\* &buf[k..]
RECURSIVE BDrop(_, _)
BDrop(s, k) ==
    IF k = 0 \/ s = <<>> THEN s
    ELSE IF s[1].n <= k THEN BDrop(Tail(s), k - s[1].n)
    ELSE << [b |-> s[1].b, n |-> s[1].n - k] >> \o Tail(s)

\* &buf[..k]
RECURSIVE BTake(_, _)
BTake(s, k) ==
    IF k = 0 \/ s = <<>> THEN <<>>
    ELSE IF s[1].n <= k THEN << s[1] >> \o BTake(Tail(s), k - s[1].n)
    ELSE << [b |-> s[1].b, n |-> k] >>

\* extend_from_slice: s followed by t
BCat(s, t) ==
    IF s = <<>> THEN t
    ELSE IF t = <<>> THEN s
    ELSE IF s[Len(s)].b = t[1].b
         THEN SubSeq(s, 1, Len(s) - 1)
              \o << [b |-> t[1].b, n |-> s[Len(s)].n + t[1].n] >>
              \o Tail(t)
         ELSE s \o t

IsPrefix(s, t) == BLen(s) <= BLen(t) /\ BTake(t, BLen(s)) = s

\* ------------------------------------------------------------ messages
LogMsg(id, len) == [kind |-> "Log", payload |-> << [b |-> id, n |-> len] >>, p |-> 0]
FlushMsg(p) == [kind |-> "Flush", payload |-> <<>>, p |-> p]
NoMsg == [kind |-> "None", payload |-> <<>>, p |-> 0]

RECURSIVE Payloads(_)
Payloads(ms) ==
    IF ms = <<>> THEN <<>>
    ELSE BCat(Head(ms).payload, Payloads(Tail(ms)))

RECURSIVE NLogs(_)
NLogs(ms) ==
    IF ms = <<>> THEN 0
    ELSE (IF Head(ms).kind = "Log" THEN 1 ELSE 0) + NLogs(Tail(ms))

\* ------------------------------------------------------------ the builder
\* log::LevelFilter, in its order: Off < Error < Warn < Info < Debug < Trace.
\* A level is its position in this order; log::Level has no Off.
LevelFilter == << "Off", "Error", "Warn", "Info", "Debug", "Trace" >>
Rank(name) == CHOOSE i \in DOMAIN LevelFilter : LevelFilter[i] = name
LevelFilters == DOMAIN LevelFilter
Levels == {l \in LevelFilters : l > Rank("Off")}

\* metadata.level().to_level_filter()
ToLevelFilter(level) == level

\* Module names and targets are strings over two characters; the empty
\* string is a name like any other.
Names == { <<>>, << 1 >>, << 1, 2 >> }
Targets == { << 1 >>, << 1, 2 >>, << 1, 2, 1 >>, << 2 >> }

\* the sizes handed to with_channel_size
Sizes == 0..(ChannelSize + 1)

\* target.starts_with(name)
StartsWith(target, name) ==
    Len(name) <= Len(target) /\ SubSeq(target, 1, Len(name)) = name

\* usize::wrapping_neg: 0 - n modulo 2^w.  The width is scaled from 64 to 16
\* bits; every name of the model is shorter than 2^16, and for such lengths
\* the order of the keys is the same in both widths.
UsizeModulus == 2 ^ 16
WrappingNeg(n) == (UsizeModulus - n) % UsizeModulus

\* the sort key of with_module_level  (lib.rs:120)
SortKey(name) == WrappingNeg(Len(name))

\* Vec::sort_by_key: a stable sort in ascending key order; an entry is put
\* behind every entry whose key is not greater than its own.
RECURSIVE Behind(_, _)
Behind(sorted, e) ==
    IF sorted = <<>> THEN << e >>
    ELSE IF SortKey(Head(sorted).name) <= SortKey(e.name)
         THEN << Head(sorted) >> \o Behind(Tail(sorted), e)
         ELSE << e >> \o sorted

RECURSIVE SortByKey(_)
SortByKey(v) ==
    IF v = <<>> THEN <<>>
    ELSE Behind(SortByKey(SubSeq(v, 1, Len(v) - 1)), v[Len(v)])

\* NonBlockingLoggerBuilder::new()  (lib.rs:77-98)
NewOptions ==
    [default_level |-> Rank("Trace"), module_levels |-> <<>>,
     channel_size |-> DEFAULT_CHANNEL_SIZE]

\* what init() has made so far: the channel and its capacity, the flag, the
\* worker thread and where it is, and whether a Sender of the channel is alive
NotBuilt ==
    [channel |-> FALSE, capacity |-> 0, running |-> FALSE, spawned |-> FALSE,
     senders |-> FALSE, worker |-> "none"]

\* module_levels.iter().find(|(name, _)| target.starts_with(name))
\*     .map(|(_, level)| level).unwrap_or(&default_level)   (lib.rs:302-310)
RECURSIVE Find(_, _)
Find(v, target) ==
    IF v = <<>> THEN <<>>
    ELSE IF StartsWith(target, Head(v).name) THEN << Head(v) >>
    ELSE Find(Tail(v), target)

Limit(o, target) ==
    IF Find(o.module_levels, target) = <<>> THEN o.default_level
    ELSE Find(o.module_levels, target)[1].level

\* Log::enabled  (lib.rs:299-311)
Enabled(o, level, target) == ToLevelFilter(level) <= Limit(o, target)

RECURSIVE MaxOf(_)
MaxOf(v) ==
    IF Len(v) = 1 THEN v[1].level
    ELSE IF v[1].level >= MaxOf(Tail(v)) THEN v[1].level ELSE MaxOf(Tail(v))

\* NonBlockingLogger::max_level  (lib.rs:267-278)
DefaultOnly(o) == o.default_level
MaxLevel(o) ==
    IF o.module_levels = <<>> THEN o.default_level
    ELSE IF MaxOf(o.module_levels) >= o.default_level THEN MaxOf(o.module_levels)
    ELSE o.default_level

buildRest == << queue, closed, running, dest, stream, errout, wpc, first, pipe_buffer,
               pdone, cont, flushRes, wb, ppc, pmsg, done, fret, fmark, shutRes, enq,
               served, ndeq, exitBy, nlog, ncalls, budget >>

\* with_level  (lib.rs:109-112)
WithLevel(b, level) ==
    /\ bpc[b] = "new"
    /\ options' = [options EXCEPT ![b].default_level = level]
    /\ UNCHANGED << bpc, built, logger, max_level, destBy >>
    /\ UNCHANGED buildRest

\* with_module_level  (lib.rs:115-121)
WithModuleLevel(b, name, level) ==
    /\ bpc[b] = "new"
    /\ Len(options[b].module_levels) < MaxOverrides
    /\ options' = [options EXCEPT ![b].module_levels =
                      SortByKey(Append(@, [name |-> name, level |-> level]))]
    /\ UNCHANGED << bpc, built, logger, max_level, destBy >>
    /\ UNCHANGED buildRest

\* assert!(size > 0, ...)  (lib.rs:191)
AnySize(size) == TRUE
SizeOk(size) == size > 0

\* with_channel_size  (lib.rs:190-194): the assertion panics, and the builder
\* is gone with the panic
WithChannelSize(b, size) ==
    /\ bpc[b] = "new"
    /\ IF SizeOk(size)
       THEN /\ options' = [options EXCEPT ![b].channel_size = size]
            /\ UNCHANGED bpc
       ELSE /\ bpc' = [bpc EXCEPT ![b] = "panicked"]
            /\ UNCHANGED options
    /\ UNCHANGED << built, logger, max_level, destBy >>
    /\ UNCHANGED buildRest

\* init(), its first step  (lib.rs:200-220): io::set_nonblocking on the
\* destination stream; when fcntl fails the message is written to that
\* stream by the calling thread
InitNonblocking(b) ==
    /\ bpc[b] = "new"
    /\ bpc' = [bpc EXCEPT ![b] = "channel"]
    /\ \E failed \in BOOLEAN :
          destBy' = IF failed THEN Append(destBy, b) ELSE destBy
    /\ Len(destBy') <= NumBuilders
    /\ UNCHANGED << options, built, logger, max_level >>
    /\ UNCHANGED buildRest

\* init(), crossbeam_channel::bounded(channel_size) and LogWorker::new, which
\* makes the flag, false  (lib.rs:222-224, worker.rs:28-38)
InitChannel(b) ==
    /\ bpc[b] = "channel"
    /\ bpc' = [bpc EXCEPT ![b] = "spawn"]
    /\ built' = [built EXCEPT ![b] = [channel |-> TRUE,
                                      capacity |-> options[b].channel_size,
                                      running |-> FALSE,
                                      spawned |-> FALSE,
                                      senders |-> TRUE,
                                      worker |-> "none"]]
    /\ UNCHANGED << options, logger, max_level, destBy >>
    /\ UNCHANGED buildRest

\* self.running.store(true, Ordering::SeqCst)  (worker.rs:41): the value the
\* flag holds when thread::spawn is called.  Unset is the spawn() that leaves
\* the flag as LogWorker::new made it.
Unset(cur) == cur
StoreTrue(cur) == TRUE

\* init(), worker.spawn(), its first statement: the calling thread sets the
\* flag  (lib.rs:225, worker.rs:41)
InitSpawn(b) ==
    /\ bpc[b] = "spawn"
    /\ bpc' = [bpc EXCEPT ![b] = "thread"]
    /\ built' = [built EXCEPT ![b].running = StoreTrue(@)]
    /\ UNCHANGED << options, logger, max_level, destBy >>
    /\ UNCHANGED buildRest

\* worker.spawn(), its second statement: thread::spawn(move || self.run()),
\* the new thread is at the head of its loop  (worker.rs:43-45)
InitThread(b) ==
    /\ bpc[b] = "thread"
    /\ bpc' = [bpc EXCEPT ![b] = "install"]
    /\ built' = [built EXCEPT ![b].spawned = TRUE, ![b].worker = "head"]
    /\ UNCHANGED << options, logger, max_level, destBy >>
    /\ UNCHANGED buildRest

\* log::set_boxed_logger: the first caller installs its logger, every later
\* one gets SetLoggerError and the installed logger stays.  Replace is the
\* log crate that takes every logger it is given.
Replace(cur, b) == [logger |-> b, res |-> "ok"]
SetBoxedLogger(cur, b) ==
    IF cur = 0 THEN [logger |-> b, res |-> "ok"]
    ELSE [logger |-> cur, res |-> "failed"]

\* whether a Sender of the attempt is alive when init() has returned `res`:
\* on Ok the log crate keeps the boxed clone for good and the caller gets the
\* logger; on Err the box is dropped with the refused call and `?` drops the
\* local logger, the only other Sender  (lib.rs:229-238).  SendersLeak is the
\* init() whose failed attempt keeps a Sender.
SendersLeak(res) == TRUE
SendersLeft(res) == res = "ok"

\* init(), log::set_max_level and log::set_boxed_logger(..)?  (lib.rs:235-238)
InitInstall(b) ==
    /\ bpc[b] = "install"
    /\ max_level' = MaxLevel(options[b])
    /\ logger' = SetBoxedLogger(logger, b).logger
    /\ bpc' = [bpc EXCEPT ![b] = SetBoxedLogger(logger, b).res]
    /\ built' = [built EXCEPT ![b].senders = SendersLeft(SetBoxedLogger(logger, b).res)]
    /\ UNCHANGED << options, destBy >>
    /\ UNCHANGED buildRest

\* ------------------------------------------------------------ initial state
\* NonBlockingLoggerBuilder::init has returned Ok: the channel is empty, the
\* worker thread is spawned with the flag already true, the log crate holds
\* the installed copy of the logger.
IdleFrame == [buf |-> <<>>, cursor |-> 0, acc |-> <<>>, outs |-> <<>>, res |-> "none"]

Init ==
    /\ queue = <<>>
    /\ closed = FALSE
    /\ running = TRUE
    /\ dest = "ok"
    /\ stream = <<>>
    /\ errout = <<>>
    /\ wpc = "head"
    /\ first = <<>>
    /\ pipe_buffer = <<>>
    /\ pdone = 0
    /\ cont = "none"
    /\ flushRes = "none"
    /\ wb = IdleFrame
    /\ ppc = [p \in Producers |-> "idle"]
    /\ pmsg = [p \in Producers |-> NoMsg]
    /\ done = [p \in Producers |-> "none"]
    /\ fret = [p \in Producers |-> "none"]
    /\ fmark = [p \in Producers |-> <<>>]
    /\ shutRes = <<>>
    /\ enq = <<>>
    /\ served = <<>>
    /\ ndeq = 0
    /\ exitBy = "none"
    /\ nlog = 0
    /\ ncalls = 0
    /\ budget = MaxGlitches
    /\ options = [b \in Builders |->
                    IF b = 1 THEN [NewOptions EXCEPT !.channel_size = ChannelSize]
                    ELSE NewOptions]
    /\ bpc = [b \in Builders |-> IF b = 1 THEN "ok" ELSE "new"]
    /\ built = [b \in Builders |->
                  IF b = 1 THEN [channel |-> TRUE, capacity |-> ChannelSize, running |-> TRUE, spawned |-> TRUE,
                        senders |-> TRUE, worker |-> "head"]
                  ELSE NotBuilt]
    /\ logger = 1
    /\ max_level = Rank("Trace")
    /\ destBy = <<>>

\* ------------------------------------------------------------ producers
\* crossbeam_channel::bounded(channel_size): send() returns at once while
\* fewer than channel_size messages are pending and blocks otherwise.
\* HasRoomOrFull is the channel that takes one message more than its size.
Capacity == built[logger].capacity
HasRoomOrFull(q) == Len(q) <= Capacity
HasRoom(q) == Len(q) < Capacity

\* The receiver lives as long as the worker is in run(); once it is dropped
\* every send fails with SendError.
ReceiverGone == wpc = "done"

\* log() under options that accept every record, as those of Init do: the
\* record is enabled and formatted (lib.rs:409-416); the line is handed to
\* sender.send at lib.rs:418.
LogCall(p) ==
    /\ ppc[p] = "idle"
    /\ ~closed
    /\ ncalls < MaxCalls
    /\ ncalls' = ncalls + 1
    /\ \E len \in Lens :
          pmsg' = [pmsg EXCEPT ![p] = LogMsg(nlog + 1, len)]
    /\ nlog' = nlog + 1
    /\ ppc' = [ppc EXCEPT ![p] = "send"]
    /\ UNCHANGED << queue, closed, buildVars, running, dest, stream, errout, wpc, first,
                    pipe_buffer, pdone, cont, flushRes, wb, done, fret, fmark, shutRes,
                    enq, served, ndeq, exitBy, budget >>

\* flush(): a fresh bounded(1) completion channel, then the Flush message is
\* handed to sender.send (lib.rs:425-427).
FlushCall(p) ==
    /\ ppc[p] = "idle"
    /\ ~closed
    /\ ncalls < MaxCalls
    /\ ncalls' = ncalls + 1
    /\ pmsg' = [pmsg EXCEPT ![p] = FlushMsg(p)]
    /\ done' = [done EXCEPT ![p] = "none"]
    /\ fret' = [fret EXCEPT ![p] = "none"]
    /\ ppc' = [ppc EXCEPT ![p] = "send"]
    /\ UNCHANGED << queue, closed, buildVars, running, dest, stream, errout, wpc, first,
                    pipe_buffer, pdone, cont, flushRes, wb, fmark, shutRes, enq, served, ndeq, exitBy, nlog, budget >>

\* sender.send(msg) succeeds: the message enters the queue at its tail.
\* log() returns; flush() goes on to done_rx.recv() (lib.rs:430).
SendOk(p) ==
    /\ ppc[p] = "send"
    /\ ~ReceiverGone
    /\ HasRoom(queue)
    /\ queue' = Append(queue, pmsg[p])
    /\ enq' = Append(enq, pmsg[p])
    /\ IF pmsg[p].kind = "Flush"
       THEN /\ ppc' = [ppc EXCEPT ![p] = "fwait"]
            /\ done' = [done EXCEPT ![p] = "pending"]
            /\ fmark' = [fmark EXCEPT ![p] = Payloads(enq)]
       ELSE /\ ppc' = [ppc EXCEPT ![p] = "idle"]
            /\ UNCHANGED << done, fmark >>
    /\ pmsg' = [pmsg EXCEPT ![p] = NoMsg]
    /\ UNCHANGED << closed, buildVars, running, dest, stream, errout, wpc, first, pipe_buffer,
                    pdone, cont, flushRes, wb, fret, shutRes, served, ndeq, exitBy, nlog, ncalls, budget >>

\* what log() and flush() hand to write_stderr_with_retry_internal when send
\* fails: "Failed to schedule log", "Failed to send flush request"
\* (lib.rs:419, 433-436).  Unreported is the failure that is dropped silently.
Unreported(kind) == <<>>
SendFailure(kind) == IF kind = "Flush" THEN << "flush request" >> ELSE << "schedule" >>

\* sender.send(msg) fails because the receiver is gone: the error goes to
\* stderr and the call returns (lib.rs:418-420 and 432-437).
SendErr(p) ==
    /\ ppc[p] = "send"
    /\ ReceiverGone
    /\ errout' = errout \o SendFailure(pmsg[p].kind)
    /\ IF pmsg[p].kind = "Flush"
       THEN /\ fret' = [fret EXCEPT ![p] = "senderr"]
            /\ fmark' = [fmark EXCEPT ![p] = Payloads(enq)]
       ELSE UNCHANGED << fret, fmark >>
    /\ ppc' = [ppc EXCEPT ![p] = "idle"]
    /\ pmsg' = [pmsg EXCEPT ![p] = NoMsg]
    /\ UNCHANGED << queue, closed, buildVars, running, dest, stream, wpc, first, pipe_buffer,
                    pdone, cont, flushRes, wb, done, shutRes, enq, served, ndeq, exitBy, nlog, ncalls, budget >>

\* done_rx.recv() returns: Ok when the worker has signalled, Err when the
\* Sender<()> was dropped with its Flush message (lib.rs:430).
FlushReturn(p) ==
    /\ ppc[p] = "fwait"
    /\ done[p] \in {"signaled", "dropped"}
    /\ fret' = [fret EXCEPT ![p] = done[p]]
    /\ done' = [done EXCEPT ![p] = "none"]
    /\ ppc' = [ppc EXCEPT ![p] = "idle"]
    /\ UNCHANGED << queue, closed, buildVars, running, dest, stream, errout, wpc, first,
                    pipe_buffer, pdone, cont, flushRes, wb, pmsg, fmark, shutRes, enq,
                    served, ndeq, exitBy, nlog, ncalls, budget >>

\* running.compare_exchange(true, false, SeqCst, SeqCst) (lib.rs:281-286):
\* the value stored and the result returned, from the value found.
PlainStore(cur) == [flag |-> FALSE, res |-> "ok"]
Toggle(cur) == [flag |-> ~cur, res |-> "ok"]
CompareExchange(cur) ==
    IF cur = TRUE THEN [flag |-> FALSE, res |-> "ok"]
    ELSE [flag |-> cur, res |-> "err"]

\* shutdown() (lib.rs:280-295)
Shutdown(p) ==
    /\ ppc[p] = "idle"
    /\ ~closed
    /\ ncalls < MaxCalls
    /\ ncalls' = ncalls + 1
    /\ running' = CompareExchange(running).flag
    /\ shutRes' = Append(shutRes, CompareExchange(running).res)
    /\ UNCHANGED << queue, closed, buildVars, dest, stream, errout, wpc, first, pipe_buffer,
                    pdone, cont, flushRes, wb, ppc, pmsg, done, fret, fmark, enq, served,
                    ndeq, exitBy, nlog, budget >>

\* ------------------------------------------------------------ the worker
prodVars == << ppc, pmsg, fret, fmark, shutRes, nlog, ncalls >>

\* The worker leaves run(): its Receiver is dropped and the channel is
\* disconnected.  Whether the messages still in the channel are dropped at
\* once (and with them the Sender<()> of every pending Flush) or stay in it
\* until the last Sender is dropped is decided by crossbeam-channel, not by
\* this code: both are possible.
Leave(by) ==
    /\ wpc' = "done"
    /\ exitBy' = by
    /\ \E keep \in BOOLEAN :
          /\ queue' = IF keep THEN queue ELSE <<>>
          /\ done' = [p \in Producers |->
                        IF ~keep /\ done[p] = "pending" THEN "dropped" ELSE done[p]]

\* while self.running.load(Ordering::SeqCst)  (worker.rs:106)
\* LoopForever is the loop the flag does not end.
LoopForever(flag) == TRUE
LoopTest(flag) == flag

WHead ==
    /\ wpc = "head"
    /\ IF LoopTest(running)
       THEN /\ wpc' = "recv"
            /\ UNCHANGED << queue, done, exitBy >>
       ELSE Leave("flag")
    /\ UNCHANGED << closed, buildVars, running, dest, stream, errout, first, pipe_buffer, pdone,
                    cont, flushRes, wb, prodVars, enq, served, ndeq, budget >>

\* a call of Self::write_buffer(buf) from call site `site`
Call(buf, site) ==
    /\ wb' = [buf |-> buf, cursor |-> 0, acc |-> <<>>, outs |-> <<>>, res |-> "run"]
    /\ cont' = site
    /\ wpc' = "wb"

\* the completion handle a Flush message carries: the Sender of the
\* one-slot channel its flush() call made  (lib.rs:425-427, worker.rs:123, 162)
FirstHandle(msg) == 1
Handle(msg) == msg.p

Received ==
    /\ queue' = Tail(queue)
    /\ ndeq' = ndeq + 1

\* whether a first message is kept for batching  (worker.rs:111)
Inline(payload) == BLen(payload) < InlineThreshold

\* self.receiver.recv()  (worker.rs:108-139)
WRecv ==
    /\ wpc = "recv"
    /\ IF queue /= <<>>
       THEN /\ Received
            /\ IF Head(queue).kind = "Log"
               THEN IF Inline(Head(queue).payload)
                    THEN /\ first' = Head(queue).payload
                         /\ wpc' = "try"
                         /\ UNCHANGED << wb, cont, pdone >>
                    ELSE /\ Call(Head(queue).payload, "big")
                         /\ UNCHANGED << first, pdone >>
               ELSE /\ pdone' = Handle(Head(queue))
                    /\ cont' = "flush1"
                    /\ wpc' = "flush"
                    /\ UNCHANGED << first, wb >>
            /\ UNCHANGED << done, exitBy >>
       ELSE /\ closed
            /\ Leave("closed")
            /\ UNCHANGED << first, wb, cont, pdone, ndeq >>
    /\ UNCHANGED << closed, buildVars, running, dest, stream, errout, pipe_buffer, flushRes,
                    prodVars, enq, served, budget >>

\* pipe_buffer after both messages were appended  (worker.rs:145-148)
Reversed(buf, a, b) == BCat(BCat(buf, b), a)
FirstOnly(buf, a, b) == BCat(buf, a)
Batch(buf, a, b) == BCat(BCat(buf, a), b)

\* what the Flush arm writes before it flushes the stream  (worker.rs:163)
Nothing(msg) == <<>>
FlushPayload(msg) == msg

\* self.receiver.try_recv()  (worker.rs:142-195)
WTry ==
    /\ wpc = "try"
    /\ IF queue /= <<>>
       THEN /\ Received
            /\ IF Head(queue).kind = "Log"
               THEN /\ pipe_buffer' = Batch(pipe_buffer, first, Head(queue).payload)
                    /\ Call(pipe_buffer', "batch")
                    /\ UNCHANGED pdone
               ELSE /\ Call(FlushPayload(first), "flush2")
                    /\ pdone' = Handle(Head(queue))
                    /\ UNCHANGED pipe_buffer
            /\ first' = <<>>
            /\ UNCHANGED << done, exitBy >>
       ELSE IF ~closed
            THEN /\ Call(first, "single")
                 /\ first' = <<>>
                 /\ UNCHANGED << queue, done, exitBy, pipe_buffer, pdone, ndeq >>
            ELSE /\ Leave("closed")
                 /\ first' = <<>>
                 /\ UNCHANGED << wb, cont, pipe_buffer, pdone, ndeq >>
    /\ UNCHANGED << closed, buildVars, running, dest, stream, errout, flushRes, prodVars, enq,
                    served, budget >>

\* ------------------------------------------------------------ write_buffer
\* the counts a write call on the stream may accept out of `rem` bytes
Accepts(rem) == {n \in {1, rem - 1, rem} : 1 <= n /\ n <= rem}

\* cursor += n  (worker.rs:79)
Overwrite(cursor, n) == n
Advance(cursor, n) == cursor + n

\* where run() goes on after write_buffer returned `res` to a logging call
\* site: the error is reported and the loop continues
\* (worker.rs:114-121, 151-160, 187-192)
StopOnError(res) == IF res = "err" THEN "done" ELSE "head"
AfterWrite(res) == "head"

\* return Err(err) (worker.rs:93) and the `?` on wait_writable (worker.rs:71,
\* 85): the error is what write_buffer returns.  Swallow is the primitive
\* that ends with Ok(()) instead.
Swallow(err) == "ok"
Propagate(err) == err

\* the step the second Flush arm takes once write_buffer(first) returned:
\* stdout().lock().flush() comes before done.send(())  (worker.rs:163-167)
SignalFirst(res) == "signal"
FlushNext(res) == "flush"

\* pipe_buffer.clear() after the batch was handed to write_buffer, whatever
\* the call returned  (worker.rs:151-153)
KeptOnError(buf, res) == IF res = "err" THEN buf ELSE <<>>
Clear(buf, res) == <<>>

\* write_buffer returns `res` to its call site
Return(res) ==
    /\ wb' = [wb EXCEPT !.res = res]
    /\ served' = BCat(served, wb.buf)
    /\ IF cont = "flush2"
       THEN /\ wpc' = FlushNext(res)
            /\ UNCHANGED << errout, pipe_buffer, cont >>
       ELSE /\ wpc' = AfterWrite(res)
            /\ errout' = IF res = "err" THEN Append(errout, "write") ELSE errout
            /\ pipe_buffer' = IF cont = "batch" THEN Clear(pipe_buffer, res)
                                                 ELSE pipe_buffer
            /\ cont' = "none"

wbFrame == << queue, closed, buildVars, running, dest, first, pdone, flushRes, prodVars, done,
              enq, ndeq, exitBy >>

\* while cursor < buf.len() is false: Ok(())  (worker.rs:64, 98)
WDone ==
    /\ wpc = "wb"
    /\ ~(wb.cursor < BLen(wb.buf))
    /\ Return("ok")
    /\ UNCHANGED << stream, budget >>
    /\ UNCHANGED wbFrame

\* pipe.write(slice) = Ok(n), n > 0  (worker.rs:77-80)
WAccept ==
    /\ wpc = "wb"
    /\ wb.cursor < BLen(wb.buf)
    /\ dest = "ok"
    /\ \E n \in Accepts(BLen(wb.buf) - wb.cursor) :
          /\ n = BLen(wb.buf) - wb.cursor \/ budget > 0
          /\ budget' = IF n = BLen(wb.buf) - wb.cursor THEN budget ELSE budget - 1
          /\ stream' = BCat(stream, BTake(BDrop(wb.buf, wb.cursor), n))
          /\ wb' = [wb EXCEPT !.cursor = Advance(wb.cursor, n),
                              !.acc = BCat(wb.acc, BTake(BDrop(wb.buf, wb.cursor), n)),
                              !.outs = Append(wb.outs, IF n = BLen(wb.buf) - wb.cursor THEN "all" ELSE "part")]
    /\ UNCHANGED << wpc, served, errout, pipe_buffer, cont >>
    /\ UNCHANGED wbFrame

\* pipe.write(slice) = Ok(0): wait_writable  (worker.rs:67-76)
WZero ==
    /\ wpc = "wb"
    /\ wb.cursor < BLen(wb.buf)
    /\ dest = "ok"
    /\ budget > 0
    /\ budget' = budget - 1
    /\ wb' = [wb EXCEPT !.outs = Append(wb.outs, "zero")]
    /\ wpc' = "poll"
    /\ UNCHANGED << stream, served, errout, pipe_buffer, cont >>
    /\ UNCHANGED wbFrame

\* pipe.write(slice) = Err(WouldBlock): wait_writable  (worker.rs:81-90).
\* A stream that has stopped for good answers every write this way.
WWouldBlock ==
    /\ wpc = "wb"
    /\ wb.cursor < BLen(wb.buf)
    /\ dest = "stuck" \/ budget > 0
    /\ budget' = IF dest = "stuck" THEN budget ELSE budget - 1
    /\ wb' = [wb EXCEPT !.outs = Append(wb.outs, "wouldblock")]
    /\ wpc' = "poll"
    /\ UNCHANGED << stream, served, errout, pipe_buffer, cont >>
    /\ UNCHANGED wbFrame

\* pipe.write(slice) = Err(err), any other error: return Err(err)  (worker.rs:91-94)
WHardError ==
    /\ wpc = "wb"
    /\ wb.cursor < BLen(wb.buf)
    /\ dest = "ok"
    /\ budget > 0
    /\ budget' = budget - 1
    /\ Return(Propagate("err"))
    /\ UNCHANGED stream
    /\ UNCHANGED wbFrame

\* wait_writable returns Ok: poll(POLLOUT, -1) reported the stream ready
\* (io.rs:34-40).  It does not return while the stream stays unwritable.
WPollReady ==
    /\ wpc = "poll"
    /\ dest = "ok"
    /\ wpc' = "wb"
    /\ UNCHANGED << wb, stream, served, errout, pipe_buffer, cont, budget >>
    /\ UNCHANGED wbFrame

\* wait_writable returns Err: poll failed, and `?` returns it  (io.rs:36-38)
WPollError ==
    /\ wpc = "poll"
    /\ dest = "ok"
    /\ Return(Propagate("err"))
    /\ UNCHANGED << stream, budget >>
    /\ UNCHANGED wbFrame

\* ------------------------------------------------------------ answering a Flush
\* stdout.lock().flush()  (worker.rs:125-130 and 164); the first arm reports
\* a failure before it signals
WFlush ==
    /\ wpc = "flush"
    /\ \E r \in {"ok", "err"} :
          /\ r = "ok" \/ budget > 0
          /\ budget' = IF r = "ok" THEN budget ELSE budget - 1
          /\ flushRes' = r
          /\ errout' = IF cont = "flush1" /\ r = "err"
                       THEN Append(errout, "flush") ELSE errout
    /\ wpc' = "signal"
    /\ UNCHANGED << queue, closed, buildVars, running, dest, stream, first, pipe_buffer, pdone,
                    cont, wb, prodVars, done, enq, served, ndeq, exitBy >>

\* let _ = done.send(())  (worker.rs:133 and 167); the second arm reports
\* its failures after the signal (worker.rs:169-181)
Reports(site, wres, fres) ==
    IF site = "flush2"
    THEN (IF wres = "err" THEN << "write" >> ELSE <<>>)
         \o (IF fres = "err" THEN << "flush" >> ELSE <<>>)
    ELSE <<>>

WSignal ==
    /\ wpc = "signal"
    /\ done' = [done EXCEPT ![pdone] = "signaled"]
    /\ errout' = errout \o Reports(cont, wb.res, flushRes)
    /\ pdone' = 0
    /\ cont' = "none"
    /\ flushRes' = "none"
    /\ wpc' = "head"
    /\ UNCHANGED << queue, closed, buildVars, running, dest, stream, first, pipe_buffer, wb,
                    prodVars, enq, served, ndeq, exitBy, budget >>

\* ------------------------------------------------------------ specifications
Producer(p) ==
    \/ LogCall(p)
    \/ FlushCall(p)
    \/ SendOk(p)
    \/ SendErr(p)
    \/ FlushReturn(p)
    \/ Shutdown(p)

Worker ==
    \/ WHead
    \/ WRecv
    \/ WTry
    \/ WDone
    \/ WAccept
    \/ WZero
    \/ WWouldBlock
    \/ WHardError
    \/ WPollReady
    \/ WPollError
    \/ WFlush
    \/ WSignal

Next ==
    \/ \E p \in Producers : Producer(p)
    \/ Worker

Spec == Init /\ [][Next]_vars

\* The threads' steps are taken by the operating system's scheduler: a
\* thread that can run does run.  Starting a new call is up to the caller.
Fairness ==
    /\ WF_vars(Worker)
    /\ \A p \in Producers : WF_vars(SendOk(p) \/ SendErr(p) \/ FlushReturn(p))

SpecLive == Init /\ [][Next]_vars /\ Fairness

\* The consumer of the destination stream stops reading for good: from then
\* on every write would block and poll never reports the stream writable.
DestStops ==
    /\ dest = "ok"
    /\ dest' = "stuck"
    /\ UNCHANGED << queue, closed, buildVars, running, stream, errout, wpc, first, pipe_buffer,
                    pdone, cont, flushRes, wb, ppc, pmsg, done, fret, fmark, shutRes,
                    enq, served, ndeq, exitBy, nlog, ncalls, budget >>

NextStuck == Next \/ DestStops

SpecStuck == Init /\ [][NextStuck]_vars /\ Fairness

\* Every Sender of the channel is dropped: each NonBlockingLogger owns one
\* (lib.rs:259-264) and no call is in progress on any of them.  The copy
\* handed to log::set_boxed_logger (lib.rs:236) is kept by the log crate for
\* the life of the process, so this step is no part of Spec; SpecClose adds
\* it to put LogWorker::run in front of a channel whose producers go away.
CloseQueue ==
    /\ ~closed
    /\ \A p \in Producers : ppc[p] = "idle"
    /\ closed' = TRUE
    /\ UNCHANGED << buildVars, queue, running, dest, stream, errout, wpc, first, pipe_buffer,
                    pdone, cont, flushRes, wb, ppc, pmsg, done, fret, fmark, shutRes,
                    enq, served, ndeq, exitBy, nlog, ncalls, budget >>

NextClose == Next \/ CloseQueue

SpecClose == Init /\ [][NextClose]_vars

\* write_buffer on its own: the worker has received one line, or two that it
\* batched, and calls write_buffer on them; the stream answers as it likes.
WriteLine(id, len) == IF len = 0 THEN <<>> ELSE << LogMsg(id, len) >>

InitWrite ==
    \E a \in 1..MaxWriteLen, b \in 0..MaxWriteLen :
        /\ queue = <<>>
        /\ closed = FALSE
        /\ running = TRUE
        /\ dest = "ok"
        /\ stream = <<>>
        /\ errout = <<>>
        /\ wpc = "wb"
        /\ first = <<>>
        /\ pipe_buffer = IF b = 0 THEN <<>> ELSE Payloads(WriteLine(1, a) \o WriteLine(2, b))
        /\ pdone = 0
        /\ cont = IF b = 0 THEN "single" ELSE "batch"
        /\ flushRes = "none"
        /\ wb = [buf |-> Payloads(WriteLine(1, a) \o WriteLine(2, b)), cursor |-> 0,
                 acc |-> <<>>, outs |-> <<>>, res |-> "run"]
        /\ ppc = [p \in Producers |-> "idle"]
        /\ pmsg = [p \in Producers |-> NoMsg]
        /\ done = [p \in Producers |-> "none"]
        /\ fret = [p \in Producers |-> "none"]
        /\ fmark = [p \in Producers |-> <<>>]
        /\ shutRes = <<>>
        /\ enq = WriteLine(1, a) \o WriteLine(2, b)
        /\ served = <<>>
        /\ ndeq = Len(WriteLine(1, a) \o WriteLine(2, b))
        /\ exitBy = "none"
        /\ nlog = Len(WriteLine(1, a) \o WriteLine(2, b))
        /\ ncalls = Len(WriteLine(1, a) \o WriteLine(2, b))
        /\ budget = MaxWriteGlitches
        /\ options = [c \in Builders |->
                        IF c = 1 THEN [NewOptions EXCEPT !.channel_size = ChannelSize]
                        ELSE NewOptions]
        /\ bpc = [c \in Builders |-> IF c = 1 THEN "ok" ELSE "new"]
        /\ built = [c \in Builders |->
                      IF c = 1 THEN [channel |-> TRUE, capacity |-> ChannelSize, running |-> TRUE, spawned |-> TRUE,
                        senders |-> TRUE, worker |-> "head"]
                      ELSE NotBuilt]
        /\ logger = 1
        /\ max_level = Rank("Trace")
        /\ destBy = <<>>

NextWrite ==
    \/ WDone
    \/ WAccept
    \/ WZero
    \/ WWouldBlock
    \/ WHardError
    \/ WPollReady
    \/ WPollError

SpecWrite == InitWrite /\ [][NextWrite]_vars

\* The builders: every builder is configured and then consumed by init(), on
\* its own thread.  The pipeline of the installed logger is not stepped here.
InitBuild ==
    /\ queue = <<>>
    /\ closed = FALSE
    /\ running = FALSE
    /\ dest = "ok"
    /\ stream = <<>>
    /\ errout = <<>>
    /\ wpc = "head"
    /\ first = <<>>
    /\ pipe_buffer = <<>>
    /\ pdone = 0
    /\ cont = "none"
    /\ flushRes = "none"
    /\ wb = IdleFrame
    /\ ppc = [p \in Producers |-> "idle"]
    /\ pmsg = [p \in Producers |-> NoMsg]
    /\ done = [p \in Producers |-> "none"]
    /\ fret = [p \in Producers |-> "none"]
    /\ fmark = [p \in Producers |-> <<>>]
    /\ shutRes = <<>>
    /\ enq = <<>>
    /\ served = <<>>
    /\ ndeq = 0
    /\ exitBy = "none"
    /\ nlog = 0
    /\ ncalls = 0
    /\ budget = MaxGlitches
    /\ options = [b \in Builders |-> NewOptions]
    /\ bpc = [b \in Builders |-> "new"]
    /\ built = [b \in Builders |-> NotBuilt]
    /\ logger = 0
    /\ max_level = Rank("Off")
    /\ destBy = <<>>

\* The worker thread of init attempt b, which no producer has reached yet.
\* while self.running.load(Ordering::SeqCst)  (worker.rs:106): with the flag
\* true the thread goes on to recv(), with the flag false it leaves run().
WorkerHead(b) ==
    /\ built[b].worker = "head"
    /\ built' = [built EXCEPT ![b].worker =
                    IF LoopTest(built[b].running) THEN "recv" ELSE "stopped"]
    /\ UNCHANGED << options, bpc, logger, max_level, destBy >>
    /\ UNCHANGED buildRest

\* self.receiver.recv() on the empty channel of attempt b  (worker.rs:108,
\* 138): it blocks while a Sender is alive, and returns Err, which ends the
\* loop, once every Sender is dropped.
WorkerRecv(b) ==
    /\ built[b].worker = "recv"
    /\ ~built[b].senders
    /\ built' = [built EXCEPT ![b].worker = "closed"]
    /\ UNCHANGED << options, bpc, logger, max_level, destBy >>
    /\ UNCHANGED buildRest

NextInit ==
    \E b \in Builders :
        \/ \E size \in Sizes : WithChannelSize(b, size)
        \/ InitNonblocking(b)
        \/ InitChannel(b)
        \/ InitSpawn(b)
        \/ InitThread(b)
        \/ InitInstall(b)
        \/ WorkerHead(b)
        \/ WorkerRecv(b)

SpecInit == InitBuild /\ [][NextInit]_vars

\* init() called on builders as new() made them, the threads it spawned
\* being scheduled.
NextAttempt ==
    \E b \in Builders :
        \/ InitNonblocking(b)
        \/ InitChannel(b)
        \/ InitSpawn(b)
        \/ InitThread(b)
        \/ InitInstall(b)
        \/ WorkerHead(b)
        \/ WorkerRecv(b)

SpecInitLive ==
    /\ InitBuild
    /\ [][NextAttempt]_vars
    /\ \A b \in Builders : WF_vars(WorkerHead(b) \/ WorkerRecv(b))

\* One builder, its level and its module overrides set in any order, then
\* init().
NextFilter ==
    \/ \E level \in LevelFilters : WithLevel(1, level)
    \/ \E name \in Names, level \in LevelFilters : WithModuleLevel(1, name, level)
    \/ InitNonblocking(1)
    \/ InitChannel(1)
    \/ InitSpawn(1)
    \/ InitThread(1)
    \/ InitInstall(1)

SpecFilter == InitBuild /\ [][NextFilter]_vars

\* Lines only, through a channel that holds one message more: the logger was
\* built with_channel_size(ChannelSize + 1), its handles only log.
InitBatch ==
    /\ queue = <<>>
    /\ closed = FALSE
    /\ running = TRUE
    /\ dest = "ok"
    /\ stream = <<>>
    /\ errout = <<>>
    /\ wpc = "head"
    /\ first = <<>>
    /\ pipe_buffer = <<>>
    /\ pdone = 0
    /\ cont = "none"
    /\ flushRes = "none"
    /\ wb = IdleFrame
    /\ ppc = [p \in Producers |-> "idle"]
    /\ pmsg = [p \in Producers |-> NoMsg]
    /\ done = [p \in Producers |-> "none"]
    /\ fret = [p \in Producers |-> "none"]
    /\ fmark = [p \in Producers |-> <<>>]
    /\ shutRes = <<>>
    /\ enq = <<>>
    /\ served = <<>>
    /\ ndeq = 0
    /\ exitBy = "none"
    /\ nlog = 0
    /\ ncalls = 0
    /\ budget = MaxGlitches
    /\ options = [b \in Builders |->
                    IF b = 1 THEN [NewOptions EXCEPT !.channel_size = ChannelSize + 1]
                    ELSE NewOptions]
    /\ bpc = [b \in Builders |-> IF b = 1 THEN "ok" ELSE "new"]
    /\ built = [b \in Builders |->
                  IF b = 1 THEN [channel |-> TRUE, capacity |-> ChannelSize + 1,
                                 running |-> TRUE, spawned |-> TRUE,
                        senders |-> TRUE, worker |-> "head"]
                  ELSE NotBuilt]
    /\ logger = 1
    /\ max_level = Rank("Trace")
    /\ destBy = <<>>

NextBatch ==
    \/ \E p \in Producers : LogCall(p) \/ SendOk(p)
    \/ WHead
    \/ WRecv
    \/ WTry
    \/ WDone
    \/ WAccept
    \/ WZero
    \/ WWouldBlock
    \/ WHardError
    \/ WPollReady
    \/ WPollError

SpecBatch == InitBatch /\ [][NextBatch]_vars

\* ------------------------------------------------------------ log() and enabled()
\* The records handed to log(): a level, a target, and the length of the line
\* the record is formatted to, here always a line short enough to be batched.
RecordLevels == {Rank("Error"), Rank("Info"), Rank("Trace")}
RecordTargets == { << 1, 2, 1 >>, << 2 >> }
Record(level, target, len) ==
    [kind |-> "Record", level |-> level, target |-> target, len |-> len]

\* format!("{}{} [{}{}] {}\r\n", timestamp, level_string, target, thread,
\* record.args())  (lib.rs:409-416): the line carries the level and the
\* target of its record
Format(rec, id) ==
    [kind |-> "Log", payload |-> << [b |-> id, n |-> rec.len] >>, p |-> 0,
     level |-> rec.level, target |-> rec.target]

\* log(record) is entered  (lib.rs:313)
LogEnter(p) ==
    /\ ppc[p] = "idle"
    /\ ~closed
    /\ ncalls < MaxCalls
    /\ ncalls' = ncalls + 1
    /\ \E level \in RecordLevels, target \in RecordTargets :
          pmsg' = [pmsg EXCEPT ![p] = Record(level, target, InlineThreshold - 1)]
    /\ ppc' = [ppc EXCEPT ![p] = "log"]
    /\ UNCHANGED << queue, closed, buildVars, running, dest, stream, errout, wpc, first,
                    pipe_buffer, pdone, cont, flushRes, wb, done, fret, fmark, shutRes,
                    enq, served, ndeq, exitBy, nlog, budget >>

\* if self.enabled(record.metadata())  (lib.rs:314).  AcceptAll is the log()
\* without the test.
AcceptAll(o, rec) == TRUE
Accepted(o, rec) == Enabled(o, rec.level, rec.target)

\* the body of log() (lib.rs:314-421): a record that enabled() accepts is
\* formatted and handed to sender.send; for any other record log() returns
\* at once
LogFilter(p) ==
    /\ ppc[p] = "log"
    /\ IF Accepted(options[logger], pmsg[p])
       THEN /\ pmsg' = [pmsg EXCEPT ![p] = Format(pmsg[p], nlog + 1)]
            /\ nlog' = nlog + 1
            /\ ppc' = [ppc EXCEPT ![p] = "send"]
       ELSE /\ pmsg' = [pmsg EXCEPT ![p] = NoMsg]
            /\ ppc' = [ppc EXCEPT ![p] = "idle"]
            /\ UNCHANGED nlog
    /\ UNCHANGED << queue, closed, buildVars, running, dest, stream, errout, wpc, first,
                    pipe_buffer, pdone, cont, flushRes, wb, done, fret, fmark, shutRes,
                    enq, served, ndeq, exitBy, ncalls, budget >>

\* the options of NonBlockingLoggerBuilder::new().with_level(Warn)
\*     .with_module_level("ab", Debug).with_channel_size(ChannelSize)
FilteredOptions ==
    [default_level |-> Rank("Warn"),
     module_levels |-> SortByKey(<< [name |-> << 1, 2 >>, level |-> Rank("Debug")] >>),
     channel_size |-> ChannelSize]

\* init() of a logger with these options has returned Ok
InitLevels ==
    /\ queue = <<>>
    /\ closed = FALSE
    /\ running = TRUE
    /\ dest = "ok"
    /\ stream = <<>>
    /\ errout = <<>>
    /\ wpc = "head"
    /\ first = <<>>
    /\ pipe_buffer = <<>>
    /\ pdone = 0
    /\ cont = "none"
    /\ flushRes = "none"
    /\ wb = IdleFrame
    /\ ppc = [p \in Producers |-> "idle"]
    /\ pmsg = [p \in Producers |-> NoMsg]
    /\ done = [p \in Producers |-> "none"]
    /\ fret = [p \in Producers |-> "none"]
    /\ fmark = [p \in Producers |-> <<>>]
    /\ shutRes = <<>>
    /\ enq = <<>>
    /\ served = <<>>
    /\ ndeq = 0
    /\ exitBy = "none"
    /\ nlog = 0
    /\ ncalls = 0
    /\ budget = MaxGlitches
    /\ options = [b \in Builders |-> IF b = 1 THEN FilteredOptions ELSE NewOptions]
    /\ bpc = [b \in Builders |-> IF b = 1 THEN "ok" ELSE "new"]
    /\ built = [b \in Builders |->
                  IF b = 1 THEN [channel |-> TRUE, capacity |-> ChannelSize,
                                 running |-> TRUE, spawned |-> TRUE,
                                 senders |-> TRUE, worker |-> "head"]
                  ELSE NotBuilt]
    /\ logger = 1
    /\ max_level = MaxLevel(FilteredOptions)
    /\ destBy = <<>>

\* Producers log records of any level and target; the stream takes every
\* write.
NextLevels ==
    \/ \E p \in Producers : LogEnter(p) \/ LogFilter(p) \/ SendOk(p)
    \/ WHead
    \/ WRecv
    \/ WTry
    \/ WDone
    \/ WAccept

SpecLevels == InitLevels /\ [][NextLevels]_vars

\* ------------------------------------------------------------ claims
\* the bytes passed to write_buffer so far, call after call
Handed == BCat(served, IF wb.res = "run" THEN wb.buf ELSE <<>>)

\* some write_buffer call has returned an error
WriteFailed == wb.res = "err" \/ \E i \in DOMAIN errout : errout[i] = "write"

\* C1: the bytes the worker hands to the destination stream are the enqueued
\* lines in the order they entered the queue, each once and whole: what was
\* handed over is always a prefix of the concatenation of the enqueued lines,
\* it is all of it when the worker waits on an empty queue, the stream holds
\* exactly these bytes as long as no write failed, and when a flush() has
\* returned (no shutdown, no failed write) the stream holds every line
\* enqueued before its Flush.
C1_FifoConcatenation ==
    /\ IsPrefix(Handed, Payloads(enq))
    /\ (wpc = "recv" /\ queue = <<>>) => Handed = Payloads(enq)
    /\ ~WriteFailed => stream = BCat(served, IF wb.res = "run" THEN wb.acc ELSE <<>>)
    /\ \A p \in Producers :
          (running /\ ~WriteFailed /\ fret[p] /= "none") => IsPrefix(fmark[p], stream)

C1_Witness ==
    /\ running
    /\ NLogs(enq) = 2
    /\ Len(enq) = 3
    /\ enq[3].kind = "Flush"
    /\ fret[enq[3].p] = "signaled"
    /\ stream = Payloads(enq)

C3_FlushReturns ==
    \A p \in Producers : (ppc[p] = "fwait") ~> (ppc[p] = "idle")

\* C4: when the worker ends its loop because the queue is closed, every Log
\* that was enqueued has been written.
C4_ClosedQueueDrained ==
    exitBy = "closed" => served = Payloads(enq)

C6_SecondShutdownFails ==
    /\ [](\A i \in DOMAIN shutRes : shutRes[i] = IF i = 1 THEN "ok" ELSE "err")
    /\ [][(Len(shutRes') > Len(shutRes) /\ Len(shutRes) >= 1) =>
            UNCHANGED << queue, closed, buildVars, running, dest, stream, errout, wpc, first,
                         pipe_buffer, pdone, cont, flushRes, wb, ppc, pmsg, done,
                         fret, fmark, enq, served, ndeq, exitBy, nlog, budget >>]_vars

C6_Witness ==
    Len(shutRes) >= 2 /\ shutRes[1] = "ok" /\ shutRes[2] = "err"

\* the number of entries of a sequence that are equal to x
RECURSIVE Count(_, _)
Count(seq, x) ==
    IF seq = <<>> THEN 0
    ELSE (IF Head(seq) = x THEN 1 ELSE 0) + Count(Tail(seq), x)

C8_LogReturns ==
    \A p \in Producers : (ppc[p] = "send" /\ pmsg[p].kind = "Log") ~> (ppc[p] = "idle")

\* C9: an error returned by write_buffer, or by the flush of the stream,
\* never ends the worker: the worker leaves its loop on the flag or on the
\* closed queue only, and the step in which write_buffer returns an error
\* takes the worker back to the head of its loop (to the flush of the stream
\* in the Flush arm) with the flag and the queue as they were.
C9_ErrorKeepsLoop ==
    /\ [](wpc = "done" => exitBy \in {"flag", "closed"})
    /\ [][(wb.res = "run" /\ wb'.res = "err") =>
            /\ wpc' = IF cont = "flush2" THEN "flush" ELSE "head"
            /\ running' = running
            /\ queue' = queue]_vars
    /\ [][(wpc = "flush" /\ flushRes' = "err") => (wpc' = "signal" /\ queue' = queue)]_vars

\* after a reported write error a later line was received and written in full
C9_Witness ==
    /\ Count(errout, "write") = 1
    /\ wb.res = "ok"
    /\ wb.buf /= <<>>
    /\ BLen(served) > BLen(wb.buf)
    /\ IsPrefix(wb.buf, BDrop(stream, BLen(stream) - BLen(wb.buf)))

\* C10: in every write_buffer call the cursor never passes the end of the
\* buffer, the bytes the stream accepted are exactly the buffer up to the
\* cursor, success is returned only when they are the whole buffer, a
\* zero-byte or would-block outcome moves neither the cursor nor the stream,
\* and every step moves the cursor by exactly the number of bytes the stream
\* took.
C10_RetryWriteExact ==
    /\ [](wb.cursor <= BLen(wb.buf))
    /\ [](wb.acc = BTake(wb.buf, wb.cursor) /\ stream = wb.acc)
    /\ [](wb.res = "ok" => (wb.acc = wb.buf /\ wb.cursor = BLen(wb.buf)))
    /\ [][(wpc = "wb" /\ wpc' = "poll") => (wb'.cursor = wb.cursor /\ stream' = stream)]_vars
    /\ [][/\ wb'.cursor >= wb.cursor
          /\ BLen(stream') - BLen(stream) = wb'.cursor - wb.cursor]_vars

C10_Witness ==
    /\ wb.res = "ok"
    /\ Len(wb.buf) = 2
    /\ Count(wb.outs, "part") >= 1
    /\ Count(wb.outs, "zero") >= 1
    /\ Count(wb.outs, "wouldblock") >= 1
    /\ stream = wb.buf

\* C11: a write that fails with an error other than would-block, or a failed
\* wait for the stream to become writable, ends write_buffer in that very
\* step with an error: a call that ends with bytes of its buffer still
\* unwritten ends with Err, the step makes no write (stream, cursor and the
\* list of write outcomes are as before), the call is over, and the bytes the
\* stream accepted during the call are the buffer up to the cursor.
C11_HardErrorAborts ==
    /\ [][(wb.res = "run" /\ wb'.res /= "run" /\ wb.cursor < BLen(wb.buf)) =>
            /\ wb'.res = "err"
            /\ wpc' \notin {"wb", "poll"}
            /\ stream' = stream
            /\ wb'.cursor = wb.cursor
            /\ wb'.outs = wb.outs]_vars
    /\ [](wb.res = "err" =>
            /\ wb.cursor < BLen(wb.buf)
            /\ wb.acc = BTake(wb.buf, wb.cursor)
            /\ stream = wb.acc
            /\ wpc \notin {"wb", "poll"})

\* an error after a partial write, once from write and once from the wait
C11_Witness ==
    /\ wb.res = "err"
    /\ wb.cursor > 0
    /\ Count(wb.outs, "part") >= 1
    /\ wb.outs[Len(wb.outs)] = "wouldblock"
    /\ stream = BTake(wb.buf, wb.cursor)

\* C12: the completion handle of every Flush is signaled exactly once: the
\* worker signals only a handle whose request is enqueued and not yet
\* answered (never a second time), and no request that was enqueued is left
\* without its signal: the worker never ends with a request still pending,
\* and no handle is dropped unanswered.
C12_SignaledExactlyOnce ==
    /\ [][(wpc = "signal" /\ wpc' /= "signal") =>
            (done[pdone] = "pending" /\ done'[pdone] = "signaled")]_vars
    /\ [](\A p \in Producers : ~(wpc = "done" /\ done[p] = "pending"))
    /\ [](\A p \in Producers : done[p] /= "dropped")

\* the overrides of o whose name is a prefix of target, and among them the
\* ones with the longest name
Matching(o, target) ==
    {i \in DOMAIN o.module_levels : StartsWith(target, o.module_levels[i].name)}

Longest(o, target) ==
    {i \in Matching(o, target) :
        \A j \in Matching(o, target) :
            Len(o.module_levels[j].name) <= Len(o.module_levels[i].name)}

\* C13: enabled() decides by the most specific override: for every target,
\* when some override names are prefixes of the target the limit enabled()
\* applies is the level of an override with the longest such name, and it is
\* the default level only when no override name is a prefix of the target.
C13_MostSpecificWins ==
    \A b \in Builders, t \in Targets :
        \E lim \in (IF Matching(options[b], t) = {}
                    THEN {options[b].default_level}
                    ELSE {options[b].module_levels[i].level : i \in Longest(options[b], t)}) :
            \A l \in Levels : Enabled(options[b], l, t) = (ToLevelFilter(l) <= lim)

\* C14: max_level() is the greater of the default level and the greatest
\* override level, the default level when there is no override, it is what
\* init() hands to log::set_max_level, and no record that enabled() accepts
\* has a level above it.
C14_MaxLevelCoversEnabled ==
    \A b \in Builders :
        /\ \A i \in DOMAIN options[b].module_levels :
              MaxLevel(options[b]) >= options[b].module_levels[i].level
        /\ MaxLevel(options[b]) >= options[b].default_level
        /\ \/ MaxLevel(options[b]) = options[b].default_level
           \/ \E i \in DOMAIN options[b].module_levels :
                 MaxLevel(options[b]) = options[b].module_levels[i].level
        /\ options[b].module_levels = <<>> => MaxLevel(options[b]) = options[b].default_level
        /\ bpc[b] = "ok" => max_level = MaxLevel(options[b])
        /\ \A t \in Targets, l \in Levels :
              Enabled(options[b], l, t) => ToLevelFilter(l) <= MaxLevel(options[b])

\* an override above the default, accepted by enabled(), and init() done
C14_Witness ==
    /\ bpc[1] = "ok"
    /\ Len(options[1].module_levels) = 2
    /\ options[1].default_level = Rank("Warn")
    /\ max_level = Rank("Debug")
    /\ Enabled(options[1], Rank("Debug"), << 1, 2 >>)
    /\ ~Enabled(options[1], Rank("Debug"), << 2 >>)

\* C15: a channel size of 0 is refused while the logger is being constructed:
\* with_channel_size either stores a positive size or panics and leaves the
\* builder unusable; a builder that panicked stays so, never gets a channel
\* or a worker and is never installed; and every channel init() creates has a
\* positive capacity.
C15_ZeroSizeRejected ==
    /\ [](\A b \in Builders : options[b].channel_size > 0)
    /\ [](\A b \in Builders : built[b].channel => built[b].capacity > 0)
    /\ [](\A b \in Builders :
            bpc[b] = "panicked" => (built[b] = NotBuilt /\ logger /= b))
    /\ [][\A b \in Builders : bpc[b] = "panicked" => bpc'[b] = "panicked"]_vars
    /\ [][\A b \in Builders :
            options'[b].channel_size /= options[b].channel_size =>
                (options'[b].channel_size > 0 /\ bpc'[b] = "new")]_vars

C15_Witness ==
    /\ bpc[1] = "panicked"
    /\ bpc[2] = "ok"
    /\ built[2].spawned
    /\ built[2].capacity = ChannelSize

\* C16: at most one logger is installed: an init() that reaches
\* log::set_boxed_logger succeeds exactly when no logger is installed yet and
\* fails otherwise, the installed logger is the one whose init() succeeded,
\* and once a logger is installed it stays the installed one.
C16_SingleInstall ==
    /\ [](Cardinality({b \in Builders : bpc[b] = "ok"}) <= 1)
    /\ [](\A b \in Builders : bpc[b] = "ok" <=> logger = b)
    /\ [][logger /= 0 => logger' = logger]_vars
    /\ [][\A b \in Builders :
            (bpc[b] = "install" /\ bpc'[b] /= "install") =>
                bpc'[b] = IF logger = 0 THEN "ok" ELSE "failed"]_vars

C16_Witness ==
    /\ logger = 2
    /\ bpc[2] = "ok"
    /\ bpc[1] = "failed"
    /\ built[1].spawned

\* C17: a log() or flush() whose send fails because the worker is gone
\* reports the failure on standard error and returns: the step that ends the
\* send appends exactly one report, of the kind of the call, the caller is
\* idle afterwards (a flush() does not go on to wait for its handle), nothing
\* enters the queue and nothing reaches the stream; and every byte of the
\* stream belongs to a line that did enter the queue.
C17_SendFailureReported ==
    /\ [][\A p \in Producers :
            (ppc[p] = "send" /\ wpc = "done" /\ ppc'[p] /= "send") =>
                /\ ppc'[p] = "idle"
                /\ errout' = Append(errout, IF pmsg[p].kind = "Flush"
                                            THEN "flush request" ELSE "schedule")
                /\ queue' = queue
                /\ enq' = enq
                /\ stream' = stream
                /\ done' = done]_vars
    /\ [](\A i \in DOMAIN stream :
            \E j \in DOMAIN enq :
                enq[j].kind = "Log" /\ enq[j].payload[1].b = stream[i].b)
    /\ [](\A p \in Producers : fret[p] = "senderr" => ppc[p] /= "fwait")

C17_Witness ==
    /\ Count(errout, "schedule") >= 1
    /\ Count(errout, "flush request") >= 1
    /\ \A p \in Producers : ppc[p] = "idle"
    /\ NLogs(enq) < nlog

\* C18: only the worker thread writes to the destination stream: no thread
\* running init() (or any other call of a producer) has written to it.
C18_OnlyWorkerWrites ==
    destBy = <<>>

\* C19: a line of 1280 bytes or more is never batched: pipe_buffer never
\* holds such a line, and a write_buffer call whose buffer holds such a line
\* holds nothing else.
C19_BigNeverBatched ==
    /\ \A i \in DOMAIN pipe_buffer : pipe_buffer[i].n < InlineThreshold
    /\ (\E i \in DOMAIN wb.buf : wb.buf[i].n >= InlineThreshold) => Len(wb.buf) = 1

\* C20 as claimed: the worker stops draining only at an empty queue or at a
\* Flush, so when it turns to write the batch no Log is left at the head of
\* the queue.
C20_DrainsAllPending ==
    [][(wpc = "try" /\ wpc' = "wb" /\ cont' = "batch") =>
          (queue' = <<>> \/ Head(queue').kind /= "Log")]_vars

\* C20, amended: after the first line the worker makes one non-blocking
\* receive and then writes: a Log found there is appended to the first line
\* and taken off the queue, the rest of the queue stays as it is for the next
\* iterations, and a batch never holds more than two lines.
C20_OneMoreMessage ==
    /\ [](Len(pipe_buffer) <= 2 /\ Len(wb.buf) <= 2)
    /\ [][(wpc = "try" /\ wpc' /= "try") => wpc' = "wb"]_vars
    /\ [][(wpc = "try" /\ wpc' = "wb" /\ queue /= <<>>) =>
            /\ wb'.buf = BCat(first, Head(queue).payload)
            /\ pipe_buffer' = wb'.buf
            /\ queue' = Tail(queue)
            /\ ndeq' = ndeq + 1]_vars
    /\ [][(wpc = "try" /\ wpc' = "wb" /\ queue = <<>>) =>
            (wb'.buf = first /\ queue' = queue /\ ndeq' = ndeq)]_vars

\* a batch of two lines about to be written while a third line waits
C20_Witness ==
    /\ cont = "batch"
    /\ wb.res = "run"
    /\ wb.cursor = 0
    /\ Len(wb.buf) = 2
    /\ ndeq = 2
    /\ Len(enq) = 3
    /\ queue /= <<>>
    /\ Head(queue).kind = "Log"

\* the Flush messages of producer p that wait in the queue
Waiting(p) == Cardinality({i \in DOMAIN queue : queue[i] = FlushMsg(p)})

\* C21: the worker handles a Flush in three steps in this order: the payload
\* accumulated in the iteration goes through write_buffer, then the stream is
\* flushed, then the completion handle is signaled.  A handle is signaled
\* only by the step that follows an issued flush, a flush is issued only
\* when every write_buffer call of the iteration has returned, and while the
\* flush and the signal are under way nothing received is left unwritten.
C21_WriteFlushSignal ==
    /\ [][\A p \in Producers :
            (done'[p] = "signaled" /\ done[p] /= "signaled") =>
               (wpc = "signal" /\ flushRes /= "none")]_vars
    /\ [][(flushRes = "none" /\ flushRes' /= "none") =>
            /\ wpc = "flush"
            /\ cont = "flush2" => wb.res /= "run"
            /\ first = <<>>
            /\ served = Payloads(SubSeq(enq, 1, ndeq))]_vars
    /\ [](wpc \in {"flush", "signal"} =>
            /\ cont \in {"flush1", "flush2"}
            /\ first = <<>>
            /\ Handed = Payloads(SubSeq(enq, 1, ndeq)))
    /\ [](flushRes /= "none" => wpc = "signal")

\* the second Flush arm has written a line and flushed, and is about to signal
C21_Witness ==
    /\ wpc = "signal"
    /\ cont = "flush2"
    /\ wb.buf /= <<>>
    /\ wb.res = "ok"
    /\ stream = wb.buf
    /\ flushRes = "ok"
    /\ done[pdone] = "pending"

\* C22: whenever the worker is at the loop head, in the blocking recv() or in
\* try_recv(), pipe_buffer is empty, also after a batch whose write failed;
\* while a batch is written pipe_buffer is that batch, and the buffers handed
\* to write_buffer are the received lines, each once.
C22_BufferEmptyAtRecv ==
    /\ wpc \in {"head", "recv", "try"} => pipe_buffer = <<>>
    /\ pipe_buffer /= <<>> => (cont = "batch" /\ wb.res = "run" /\ pipe_buffer = wb.buf)
    /\ IsPrefix(Handed, Payloads(SubSeq(enq, 1, ndeq)))

\* the worker is back in recv() after a batch of two lines failed to be written
C22_Witness ==
    /\ wpc = "recv"
    /\ wb.res = "err"
    /\ Len(wb.buf) = 2
    /\ pipe_buffer = <<>>
    /\ errout /= <<>>

\* C24: the running flag never goes from false to true, it changes only in a
\* shutdown() that returns success, and of all the shutdown() calls made so
\* far exactly one has succeeded when the flag is false and none when it is
\* true.
C24_StopsOnce ==
    /\ [][~running => ~running']_vars
    /\ [][running' /= running =>
            /\ Len(shutRes') = Len(shutRes) + 1
            /\ shutRes'[Len(shutRes')] = "ok"]_vars
    /\ [](Count(shutRes, "ok") = IF running THEN 0 ELSE 1)
    /\ [](Count(shutRes, "ok") + Count(shutRes, "err") = Len(shutRes))

\* three shutdown() calls were made: one succeeded and two failed
C24_Witness ==
    /\ Len(shutRes) = 3
    /\ Count(shutRes, "ok") = 1
    /\ Count(shutRes, "err") = 2
    /\ ~running

\* C26: when the worker is about to signal, the handle it holds is that of a
\* flush() whose caller waits and whose slot is empty, so the send is enabled
\* at once; the handle signaled is the one carried by the Flush message just
\* received, and every producer has at most one unanswered Flush, which is
\* either in the queue or in the worker's hands.
C26_SignalNeverBlocks ==
    /\ [](wpc = "signal" =>
            /\ pdone \in Producers
            /\ done[pdone] = "pending"
            /\ ppc[pdone] = "fwait"
            /\ ENABLED WSignal)
    /\ [][\A p \in Producers :
            (done'[p] = "signaled" /\ done[p] /= "signaled") =>
               /\ p = pdone
               /\ enq[ndeq] = FlushMsg(p)
               /\ done[p] = "pending"]_vars
    /\ [](\A p \in Producers :
            Waiting(p) + (IF pdone = p THEN 1 ELSE 0) =
               IF done[p] = "pending" THEN 1 ELSE 0)

\* the worker is about to answer the second producer's flush while the first
\* producer's flush waits in the queue
C26_Witness ==
    /\ wpc = "signal"
    /\ pdone = 2
    /\ done[1] = "pending"
    /\ done[2] = "pending"
    /\ Waiting(1) = 1

\* C23: after any sequence of with_module_level calls, the empty name among
\* them or not, module_levels is sorted by descending name length, and so for
\* every target, the empty one too, the first entry whose name is a prefix of
\* the target has the longest name of all entries that are a prefix of it.
C23_SortedByLength ==
    \A b \in Builders :
       LET v == options[b].module_levels
       IN  /\ \A i, j \in DOMAIN v : i < j => Len(v[i].name) >= Len(v[j].name)
           /\ \A target \in Targets \cup {<<>>} :
                 \A i \in DOMAIN v :
                    StartsWith(target, v[i].name) =>
                       Len(Find(v, target)[1].name) >= Len(v[i].name)

\* C27: an init() that fails because a logger is already installed leaves no
\* Sender of its channel alive, the worker it spawned leaves its loop through
\* the closed queue, and only the worker of a failed attempt ever ends; the
\* worker has written nothing to the stream and taken nothing from a queue.
C27_FailedInitLeavesNoWorker ==
    /\ [](\A b \in Builders :
            bpc[b] = "failed" => (built[b].spawned /\ ~built[b].senders))
    /\ [](\A b \in Builders :
            built[b].worker \in {"closed", "stopped"} =>
               (bpc[b] = "failed" /\ built[b].worker = "closed"))
    /\ [](stream = <<>> /\ served = <<>> /\ ndeq = 0)
    /\ \A b \in Builders : (bpc[b] = "failed") ~> (built[b].worker = "closed")

\* the second init() failed and its worker has ended; the first logger stays
C27_Witness ==
    /\ logger = 1
    /\ bpc[2] = "failed"
    /\ built[2].worker = "closed"
    /\ built[1].worker = "recv"

\* C28: the flag is true before the worker thread exists and stays true until
\* init() has returned, so a compare_exchange(true, false) made right after
\* init() succeeds, and the worker never finds the flag false at its loop
\* test, however late or early the new thread runs.
C28_RunningBeforeThread ==
    /\ \A b \in Builders : built[b].spawned => built[b].running
    /\ \A b \in Builders :
          bpc[b] \in {"install", "ok", "failed"} =>
             /\ built[b].running
             /\ CompareExchange(built[b].running) = [flag |-> FALSE, res |-> "ok"]
    /\ \A b \in Builders : built[b].worker /= "stopped"

\* init() has returned Ok and the worker, past its loop test, waits in recv()
C28_Witness ==
    /\ bpc[1] = "ok"
    /\ logger = 1
    /\ built[1].running
    /\ built[1].worker = "recv"

\* the records of the messages that entered the queue
Logged == {i \in DOMAIN enq : enq[i].kind = "Log"}

\* C25: log() with a record enabled() rejects returns with the queue, the
\* messages enqueued so far, the stream and stderr as they were; log() with a
\* record enabled() accepts hands exactly one Log message, the line of that
\* record, to send: every accepted record is one message on its way or in the
\* queue's history, and every message there comes from an accepted record.
C25_RejectedRecordNoEffect ==
    /\ [][\A p \in Producers :
            (ppc[p] = "log" /\ ppc'[p] /= "log") =>
               IF Enabled(options[logger], pmsg[p].level, pmsg[p].target)
               THEN /\ ppc'[p] = "send"
                    /\ pmsg'[p] = Format(pmsg[p], nlog')
                    /\ nlog' = nlog + 1
                    /\ UNCHANGED << queue, enq, stream, errout >>
               ELSE /\ ppc'[p] = "idle"
                    /\ pmsg'[p] = NoMsg
                    /\ UNCHANGED << queue, enq, stream, errout, nlog, wpc, first,
                                    pipe_buffer, wb, served, ndeq >>]_vars
    /\ [](Cardinality(Logged) + Cardinality({p \in Producers : ppc[p] = "send"}) = nlog)
    /\ [](\A i \in Logged :
            /\ Enabled(options[logger], enq[i].level, enq[i].target)
            /\ \A j \in Logged : enq[i].payload = enq[j].payload => i = j)
    /\ [](Len(enq) + Cardinality({p \in Producers : ppc[p] /= "idle"}) <= ncalls)

\* log() has returned for a rejected record and for an accepted one: two
\* calls were made and one message entered the queue
C25_Witness ==
    /\ ncalls = 2
    /\ nlog = 1
    /\ Len(enq) = 1
    /\ \A p \in Producers : ppc[p] = "idle"

====
